---------------------------- MODULE Spec2Model ----------------------------
(***************************************************************************)
(* Hard disks in a periodic box (HistoricDisks, Python/naive): the         *)
(* periodic geometry and lattice builders of common.py and the four        *)
(* event-driven schedulers (ECMC_Newtonian.py, ECMC_forward.py,            *)
(* ECMC_straight.py, molecular_dynamics.py).                               *)
(*                                                                         *)
(* Numbers.  The scripts compute with Python floats.  The model computes   *)
(* with exact rationals <<num, den>> (den > 0, lowest terms); math.inf is  *)
(* <<1, 0>>.  math.sqrt is modelled where its argument is the square of a  *)
(* rational; a step whose square root is irrational leaves the model's     *)
(* number domain and is cut off (pc = "inexact").  Lists are 1-based here, *)
(* 0-based in the scripts: disk k of the code is disk k + 1 of the model.  *)
(***************************************************************************)
EXTENDS Integers, Sequences, FiniteSets, TLC

VARIABLES
    script,        \* which script runs: "newtonian", "forward", "straight", "md",
                   \* "four_disk", or a direct call of a function
    pc,            \* position in the script
    err,           \* the exception that ended the script, "none" if none
    n_x, n_y,      \* args.n_x, args.n_y
    args,          \* the other arguments: shape, chain_time, n_chains, n_samples,
                   \* sample_time
    sigma,         \* disk radius
    box,           \* (Lx, Ly)
    pos,           \* disk positions
    vel,           \* disk velocities (newtonian, md), the chain velocity (forward)
    active,        \* index of the active disk
    direction,     \* straight: 0 (x) or 1 (y)
    chain_time,    \* remaining chain time
    sample,        \* loop variable of the chain loop
    time_to_sample,\* md: time to the next sample
    sample_count,  \* md: samples still to emit
    vel_max,       \* md: tracked maximum speed
    printed,       \* number of samples printed so far
    last,          \* history of the latest step (event, event_time, state before it)
    call,          \* arguments and result of a direct function call
    velocities,    \* four-disk straight script: the list of chain velocities
    t_current_chain \* four-disk straight script: time spent in the chain

vars == <<script, pc, err, n_x, n_y, args, sigma, box, pos, vel, active, direction,
          chain_time, sample, time_to_sample, sample_count, vel_max, printed,
          last, call, velocities, t_current_chain>>

(***************************************************************************)
(* Exact rational arithmetic standing for Python float arithmetic.         *)
(***************************************************************************)
Abs(a) == IF a < 0 THEN -a ELSE a

RECURSIVE GCD(_, _)
GCD(a, b) == IF b = 0 THEN a ELSE GCD(b, a % b)

\* a / b in lowest terms (b > 0), g their greatest common divisor
Cancel(a, b, g) == <<a \div g, b \div g>>
Lowest(a, b) == Cancel(a, b, GCD(Abs(a), b))
Q(a, b) ==
    IF b = 0 THEN <<1, 0>> ELSE Lowest(IF b < 0 THEN -a ELSE a, Abs(b))

QInt(a) == <<a, 1>>
Inf == <<1, 0>>
Zero == <<0, 1>>
IsInf(x) == x[2] = 0

\* sums, products and comparisons cancel common factors before they multiply
QAddOver(x, y, g) ==
    Q(x[1] * (y[2] \div g) + y[1] * (x[2] \div g), (x[2] \div g) * y[2])
QAdd(x, y) == QAddOver(x, y, GCD(x[2], y[2]))
QNeg(x) == <<-x[1], x[2]>>
QSub(x, y) == QAdd(x, QNeg(y))
QMulOver(x, y, g1, g2) ==
    Q((x[1] \div g1) * (y[1] \div g2), (x[2] \div g2) * (y[2] \div g1))
QMul(x, y) == QMulOver(x, y, GCD(Abs(x[1]), y[2]), GCD(Abs(y[1]), x[2]))
QDiv(x, y) == QMul(x, Q(y[2], y[1]))
QLtOver(x, y, g) == x[1] * (y[2] \div g) < y[1] * (x[2] \div g)
QLt(x, y) ==
    IF y[2] = 0 THEN x[2] # 0
    ELSE IF x[2] = 0 THEN FALSE
    ELSE QLtOver(x, y, GCD(x[2], y[2]))
QLe(x, y) == ~QLt(y, x)
QSq(x) == QMul(x, x)
QAbs(x) == <<Abs(x[1]), x[2]>>
QMin(x, y) == IF QLt(y, x) THEN y ELSE x
QMax(x, y) == IF QLt(x, y) THEN y ELSE x

\* Python's float x % y for y > 0: x - y * floor(x / y), in [0, y).
Floor(q) == q[1] \div q[2]
QMod(x, y) == QSub(x, QMul(y, QInt(Floor(QDiv(x, y)))))

\* the integer square root, by bisection of lo..hi
RECURSIVE ISqrtIn(_, _, _)
ISqrtIn(a, lo, hi) ==
    IF lo >= hi THEN lo
    ELSE IF ((lo + hi + 1) \div 2) * ((lo + hi + 1) \div 2) <= a
    THEN ISqrtIn(a, (lo + hi + 1) \div 2, hi)
    ELSE ISqrtIn(a, lo, ((lo + hi + 1) \div 2) - 1)
ISqrt(a) == ISqrtIn(a, 0, IF a < 46340 THEN a ELSE 46340)
IsRoot(r, a) == r * r = a
IsSquare(a) == a >= 0 /\ IsRoot(ISqrt(a), a)

\* math.sqrt on the squares of rationals.
HasSqrt(x) == IsSquare(x[1]) /\ IsSquare(x[2])
Sqrt(x) == <<ISqrt(x[1]), ISqrt(x[2])>>

(***************************************************************************)
(* common.py: periodic geometry.                                           *)
(***************************************************************************)
VecSub(v, w) == <<QSub(v[1], w[1]), QSub(v[2], w[2])>>
ZeroVec == <<Zero, Zero>>
NormSq(v) == QAdd(QSq(v[1]), QSq(v[2]))
Dot(v, w) == QAdd(QMul(v[1], w[1]), QMul(v[2], w[2]))

correct_periodic_position(position, b) ==
    <<QMod(position[1], b[1]), QMod(position[2], b[2])>>

\* the wrapped difference, with no component folded back
separation_vector_unfolded(position_one, position_two, b) ==
    correct_periodic_position(VecSub(position_one, position_two), b)

\* lines 69-72: a component beyond half the side is folded back
separation_vector(position_one, position_two, b) ==
    LET fold(s, side) == IF QLt(QDiv(side, QInt(2)), s) THEN QSub(s, side) ELSE s
        folded(separation) == <<fold(separation[1], b[1]),
                                fold(separation[2], b[2])>>
    IN  folded(correct_periodic_position(VecSub(position_one, position_two), b))

(***************************************************************************)
(* The no-overlap condition of the hard-disk model: every pair of distinct *)
(* disks has periodic minimum-image distance >= 2 * sigma.                 *)
(***************************************************************************)
FourSigmaSq(sg) == QMul(QInt(4), QSq(sg))

PairApart(p, q, sg, b) ==
    QLe(FourSigmaSq(sg), NormSq(separation_vector(p, q, b)))

NoOverlap(ps, sg, b) ==
    \A i, j \in 1..Len(ps) : i < j => PairApart(ps[i], ps[j], sg, b)

InBox(ps, b) ==
    \A i \in 1..Len(ps) : \A d \in 1..2 :
        QLe(Zero, ps[i][d]) /\ QLt(ps[i][d], b[d])

(***************************************************************************)
(* common.py: create_crystal.  The result is [raised, pos]: raised stands  *)
(* for the RuntimeError of line 105.                                       *)
(***************************************************************************)
crystal_distance_x(nx, b) == QDiv(b[1], QInt(nx))
crystal_distance_y(ny, b) == QDiv(b[2], QInt(ny))

crystal_raises(nx, sg, b) ==
    QLt(crystal_distance_x(nx, b), QMul(QInt(2), sg))

crystal_site(i, j, nx, ny, b) ==
    LET distance_x == crystal_distance_x(nx, b)
        distance_y == crystal_distance_y(ny, b)
    IN  correct_periodic_position(
            <<QAdd(QMul(distance_x, QInt(j)),
                   QMul(QMul(Q(1, 2), distance_x), QInt(i % 2))),
              QMul(QInt(i), distance_y)>>, b)

create_crystal(nx, ny, sg, b) ==
    IF crystal_raises(nx, sg, b)
    THEN [raised |-> TRUE, pos |-> <<>>]
    ELSE [raised |-> FALSE,
          pos |-> [k \in 1..(nx * ny) |->
                      crystal_site((k - 1) \div nx, (k - 1) % nx, nx, ny, b)]]

(***************************************************************************)
(* common.py: create_packed.  Every y the function computes is a rational  *)
(* multiple of sqrt3 = math.sqrt(3); the model keeps a position as         *)
(* <<x, c>> with y = c * sqrt3, c rational, and compares c * sqrt3 with    *)
(* rationals exactly, by the continued fraction sqrt(3) = [1; 1, 2, 1, 2,  *)
(* ...].  2.05 is 41/20.                                                   *)
(***************************************************************************)
Sqrt3Term(k) == IF k = 0 THEN 1 ELSE IF k % 2 = 1 THEN 1 ELSE 2

\* p / q > [t_k; t_k+1, ...], the tail of the continued fraction (p >= 0, q > 0)
RECURSIVE CFGreater(_, _, _)
CFGreater(p, q, k) ==
    LET a == p \div q
        r == p % q
    IN  IF a > Sqrt3Term(k) THEN TRUE
        ELSE IF a < Sqrt3Term(k) THEN FALSE
        ELSE IF r = 0 THEN FALSE
        ELSE ~CFGreater(q, r, k + 1)

\* x > sqrt3, for a rational x
GtSqrt3(x) == x[1] > 0 /\ CFGreater(x[1], x[2], 0)

\* c * sqrt3 >= y, for rationals c >= 0 and y > 0
TimesSqrt3Ge(c, y) == c[1] > 0 /\ ~GtSqrt3(QDiv(y, c))

packed_displacement(sg) == QMul(Q(41, 20), sg)

\* one pass of the while loop of lines 144-162: ps holds the i + j disks
\* placed so far
RECURSIVE packed_fill(_, _, _, _, _)
packed_fill(n, sg, b, ps, filling_low) ==
    IF Len(ps) >= n THEN ps
    ELSE
      LET previous == ps[Len(ps)]
          displacement == packed_displacement(sg)
          row == QMul(displacement, Q(1, 2))    \* times sqrt3: displacement * sqrt3 / 2.0
          reach == IF filling_low THEN QMul(QInt(2), sg) ELSE sg
          wraps == QLe(b[1], QAdd(QAdd(previous[1], displacement), reach))
          move == IF wraps
                  THEN IF filling_low
                       THEN <<QSub(QMul(displacement, Q(1, 2)), previous[1]), row>>
                       ELSE <<QNeg(previous[1]), row>>
                  ELSE <<displacement, Zero>>
          placed == <<QAdd(previous[1], move[1]), QAdd(previous[2], move[2])>>
      IN  packed_fill(n, sg, b, Append(ps, placed),
                      IF wraps THEN ~filling_low ELSE filling_low)

create_packed(n, sg, b) ==
    LET ps == packed_fill(n, sg, b, <<<<Zero, Zero>>>>, TRUE)
    IN  IF TimesSqrt3Ge(ps[Len(ps)][2], b[2])
        THEN [raised |-> TRUE, pos |-> <<>>]
        ELSE [raised |-> FALSE, pos |-> ps]

(***************************************************************************)
(* The collision-time solvers.  Each script has its own find_event; the    *)
(* model names them after their script.  scal_*, upsilon_* are the locals  *)
(* scal and upsilon.  A solver is exact when the square root it takes, if  *)
(* any, is rational.                                                       *)
(***************************************************************************)
Advance(p, v, t) == <<QAdd(p[1], QMul(t, v[1])), QAdd(p[2], QMul(t, v[2]))>>

\* mutant: the later root of the quadratic
find_event_late(pos_active, pos_target, vel_active, sg, b) ==
    LET result(vel_sq, scal, upsilon) ==
            IF QLt(Zero, upsilon) /\ QLt(scal, Zero)
            THEN QDiv(QNeg(QSub(scal, Sqrt(upsilon))), vel_sq)
            ELSE Inf
        solve(vel_sq, dist_sq, scal) ==
            result(vel_sq, scal,
                   QSub(QSq(scal), QMul(vel_sq, QSub(dist_sq, FourSigmaSq(sg)))))
        from(pos_rel) ==
            solve(NormSq(vel_active), NormSq(pos_rel), Dot(vel_active, pos_rel))
    IN  from(separation_vector(pos_active, pos_target, b))

\* ECMC_Newtonian.py, lines 106-114.  The locals of the code are the
\* parameters of the inner definitions.
find_event_newtonian(pos_active, pos_target, vel_active, sg, b) ==
    LET result(vel_sq, scal, upsilon) ==
            IF QLt(Zero, upsilon) /\ QLt(scal, Zero)
            THEN QDiv(QNeg(QAdd(scal, Sqrt(upsilon))), vel_sq)
            ELSE Inf
        solve(vel_sq, dist_sq, scal) ==
            result(vel_sq, scal,
                   QSub(QSq(scal), QMul(vel_sq, QSub(dist_sq, FourSigmaSq(sg)))))
        from(pos_rel) ==
            solve(NormSq(vel_active), NormSq(pos_rel), Dot(vel_active, pos_rel))
    IN  from(separation_vector(pos_active, pos_target, b))

\* the square root of line 112 is taken and is rational, or none is taken
exact_newtonian(pos_active, pos_target, vel_active, sg, b) ==
    LET result(scal, upsilon) ==
            (QLt(Zero, upsilon) /\ QLt(scal, Zero)) => HasSqrt(upsilon)
        solve(vel_sq, dist_sq, scal) ==
            result(scal,
                   QSub(QSq(scal), QMul(vel_sq, QSub(dist_sq, FourSigmaSq(sg)))))
        from(pos_rel) ==
            solve(NormSq(vel_active), NormSq(pos_rel), Dot(vel_active, pos_rel))
    IN  from(separation_vector(pos_active, pos_target, b))

\* ECMC_forward.py, lines 106-113: the velocity is taken to be a unit vector
find_event_forward(pos_active, pos_target, vel_active, sg, b) ==
    LET result(scal, upsilon) ==
            IF QLt(Zero, upsilon) /\ QLt(scal, Zero)
            THEN QNeg(QAdd(scal, Sqrt(upsilon)))
            ELSE Inf
        solve(dist_sq, scal) ==
            result(scal, QSub(QSq(scal), QSub(dist_sq, FourSigmaSq(sg))))
        from(pos_rel) == solve(NormSq(pos_rel), Dot(vel_active, pos_rel))
    IN  from(separation_vector(pos_active, pos_target, b))

exact_forward(pos_active, pos_target, vel_active, sg, b) ==
    LET result(scal, upsilon) ==
            (QLt(Zero, upsilon) /\ QLt(scal, Zero)) => HasSqrt(upsilon)
        solve(dist_sq, scal) ==
            result(scal, QSub(QSq(scal), QSub(dist_sq, FourSigmaSq(sg))))
        from(pos_rel) == solve(NormSq(pos_rel), Dot(vel_active, pos_rel))
    IN  from(separation_vector(pos_active, pos_target, b))

\* molecular_dynamics.py, lines 114-125: the formula of ECMC_Newtonian.py on
\* the relative velocity, after the test of line 116
find_event_md(pos_i, vel_i, pos_j, vel_j, sg, b) ==
    LET from(vel_rel) ==
            IF NormSq(vel_rel) = Zero THEN Inf
            ELSE find_event_newtonian(pos_i, pos_j, vel_rel, sg, b)
    IN  from(VecSub(vel_i, vel_j))

exact_md(pos_i, vel_i, pos_j, vel_j, sg, b) ==
    exact_newtonian(pos_i, pos_j, VecSub(vel_i, vel_j), sg, b)

(***************************************************************************)
(* Bounds of the lattice-builder specifications.                           *)
(***************************************************************************)
MaxNx == 3
MaxNy == 3
MaxSide == 6
MaxSigmaHalves == 2
MaxPackedN == 5

SigmaSet == {Q(k, 2) : k \in 1..MaxSigmaHalves}
BoxSet == {<<QInt(lx), QInt(ly)>> : lx \in 1..MaxSide, ly \in 1..MaxSide}

\* last: the latest step of a scheduling loop.  event is its kind, target and
\* event_time the selected event; before, active, pos and vel are the remaining
\* time, the active disk, the positions and the velocities before the step;
\* advanced is the sum of the times by which the chain has moved its active
\* disks so far.
NoLast == [event |-> "none", target |-> 0, event_time |-> Zero,
           before |-> Zero, active |-> 0, pos |-> <<>>, vel |-> <<>>,
           advanced |-> Zero]
NoCall == [fn |-> "none"]
NoArgs == [shape |-> "none", chain_time |-> Zero, n_chains |-> 0,
           n_samples |-> 0, sample_time |-> Zero]

\* the scheduler variables, unused by a direct function call
Idle ==
    /\ velocities = <<>> /\ t_current_chain = Zero
    /\ args = NoArgs
    /\ vel = <<>> /\ active = 0 /\ direction = 0
    /\ chain_time = Zero /\ sample = 0
    /\ time_to_sample = Zero /\ sample_count = 0 /\ vel_max = Zero
    /\ printed = 0 /\ last = NoLast /\ call = NoCall

IdleUnchanged ==
    UNCHANGED <<args, vel, active, direction, chain_time, sample, time_to_sample,
                sample_count, vel_max, printed, last, call, velocities,
                t_current_chain>>

(***************************************************************************)
(* Specification SpecCrystal: one call create_crystal(n_x, n_y, sigma,     *)
(* box), as in line 76 of the scripts, on every input within the bounds.   *)
(***************************************************************************)
InitCrystal ==
    /\ script = "create_crystal" /\ pc = "call" /\ err = "none"
    /\ n_x \in 1..MaxNx /\ n_y \in 1..MaxNy
    /\ sigma \in SigmaSet /\ box \in BoxSet
    /\ pos = <<>>
    /\ Idle

CallCreateCrystal ==
    /\ script = "create_crystal" /\ pc = "call"
    /\ LET r == create_crystal(n_x, n_y, sigma, box)
       IN  /\ pc' = IF r.raised THEN "raised" ELSE "returned"
           /\ err' = IF r.raised THEN "RuntimeError" ELSE "none"
           /\ pos' = r.pos
    /\ UNCHANGED <<script, n_x, n_y, sigma, box>>
    /\ IdleUnchanged

SpecCrystal == InitCrystal /\ [][CallCreateCrystal]_vars

\* C2: create_crystal either raises the fit error or returns exactly
\* n_x * n_y positions, all inside [0,Lx) x [0,Ly), no two of them closer
\* than 2 * sigma under periodic boundary conditions.
CrystalReturnsValid ==
    (script = "create_crystal" /\ pc = "returned") =>
        /\ Len(pos) = n_x * n_y
        /\ InBox(pos, box)
        /\ NoOverlap(pos, sigma, box)

(***************************************************************************)
(* Specification SpecPacked: one call create_packed(n, sigma, box) with    *)
(* n = n_x * n_y, as in lines 67 and 71 of the scripts.                    *)
(***************************************************************************)
InitPacked ==
    /\ script = "create_packed" /\ pc = "call" /\ err = "none"
    /\ n_x \in 1..MaxPackedN /\ n_y = 1
    /\ sigma \in SigmaSet /\ box \in BoxSet
    /\ pos = <<>>
    /\ Idle

CallCreatePacked ==
    /\ script = "create_packed" /\ pc = "call"
    /\ LET r == create_packed(n_x * n_y, sigma, box)
       IN  /\ pc' = IF r.raised THEN "raised" ELSE "returned"
           /\ err' = IF r.raised THEN "RuntimeError" ELSE "none"
           /\ pos' = r.pos
    /\ UNCHANGED <<script, n_x, n_y, sigma, box>>
    /\ IdleUnchanged

SpecPacked == InitPacked /\ [][CallCreatePacked]_vars

\* positions <<x, c>> with y = c * sqrt3: inside [0,Lx) x [0,Ly)
PackedInBox(ps, b) ==
    \A i \in 1..Len(ps) :
        /\ QLe(Zero, ps[i][1]) /\ QLt(ps[i][1], b[1])
        /\ QLe(Zero, ps[i][2]) /\ ~TimesSqrt3Ge(ps[i][2], b[2])

\* positions <<x, c>> with y = c * sqrt3 in [0, Ly): the minimum-image distance
\* is >= 2 * sigma.  With dx the minimum-image x separation and e = |c1 - c2|,
\* the y separation is e * sqrt3 or Ly - e * sqrt3, whichever is shorter.
PackedPairApart(p, q, sg, b) ==
    LET dx == separation_vector(<<p[1], Zero>>, <<q[1], Zero>>, b)[1]
        e == QAbs(QSub(p[2], q[2]))
        direct == QAdd(QSq(dx), QMul(QInt(3), QSq(e)))
        A == QSub(QAdd(direct, QSq(b[2])), FourSigmaSq(sg))
        B == QMul(QMul(QInt(2), b[2]), e)
    IN  /\ QLe(FourSigmaSq(sg), direct)
        /\ IF B[1] = 0 THEN QLe(Zero, A)
           ELSE A[1] > 0 /\ GtSqrt3(QDiv(A, B))

PackedNoOverlap(ps, sg, b) ==
    \A i, j \in 1..Len(ps) : i < j => PackedPairApart(ps[i], ps[j], sg, b)

(***************************************************************************)
(* Specification SpecFindEvent: one call of a script's find_event on two   *)
(* disks, the first at the origin and the second on the half-integer grid   *)
(* of the box, with sigma = FEDiameter / 2.                                *)
(* call.solver names the script; for the event-chain solvers vel_j is the  *)
(* zero vector (the target does not move).                                 *)
(***************************************************************************)
FEDiameter == 5
FESmallSide == 6
FELargeSide == 12

FESides == {FESmallSide, FELargeSide}
FEBoxSet == {<<QInt(lx), QInt(ly)>> : lx, ly \in FESides}
UnitVelSet == {<<QInt(1), Zero>>, <<Zero, QInt(1)>>, <<QInt(-1), Zero>>,
               <<Zero, QInt(-1)>>, <<Q(3, 5), Q(4, 5)>>, <<Q(-4, 5), Q(3, 5)>>,
               <<Q(-3, 5), Q(-4, 5)>>, <<Q(4, 5), Q(-3, 5)>>,
               <<Q(-5, 13), Q(-12, 13)>>, <<Q(5, 13), Q(-12, 13)>>}
FEVelSet == UnitVelSet \cup {ZeroVec, <<QInt(2), Zero>>, <<QInt(1), QInt(1)>>}
FETargetVelSet == {<<QInt(1), Zero>>, <<Zero, QInt(-1)>>}
\* the points of the box with half-integer coordinates
Grid(b) == {<<Q(x, 2), Q(y, 2)>> : x \in 0..(2 * b[1][1] - 1),
                                   y \in 0..(2 * b[2][1] - 1)}

InitFindEvent ==
    /\ velocities = <<>> /\ t_current_chain = Zero
    /\ script = "find_event" /\ pc = "call" /\ err = "none"
    /\ n_x = 2 /\ n_y = 1
    /\ sigma = Q(FEDiameter, 2)
    /\ box \in FEBoxSet
    /\ pos \in {<<ZeroVec, p>> : p \in Grid(box)}
    /\ \E solver \in {"newtonian", "forward", "md"} :
       \E vi \in (IF solver = "forward" THEN UnitVelSet ELSE FEVelSet) :
       \E vj \in (IF solver = "md" THEN FETargetVelSet ELSE {ZeroVec}) :
            /\ vel = <<vi, vj>>
            /\ call = [fn |-> "find_event", solver |-> solver, result |-> Inf]
    /\ args = NoArgs
    /\ active = 0 /\ direction = 0
    /\ chain_time = Zero /\ sample = 0
    /\ time_to_sample = Zero /\ sample_count = 0 /\ vel_max = Zero
    /\ printed = 0 /\ last = NoLast

FindEventExact ==
    CASE call.solver = "newtonian" ->
            exact_newtonian(pos[1], pos[2], vel[1], sigma, box)
      [] call.solver = "forward" ->
            exact_forward(pos[1], pos[2], vel[1], sigma, box)
      [] call.solver = "md" ->
            exact_md(pos[1], vel[1], pos[2], vel[2], sigma, box)

FindEventResult ==
    CASE call.solver = "newtonian" ->
            find_event_newtonian(pos[1], pos[2], vel[1], sigma, box)
      [] call.solver = "forward" ->
            find_event_forward(pos[1], pos[2], vel[1], sigma, box)
      [] call.solver = "md" ->
            find_event_md(pos[1], vel[1], pos[2], vel[2], sigma, box)

CallFindEvent ==
    /\ UNCHANGED <<velocities, t_current_chain>>
    /\ script = "find_event" /\ pc = "call"
    /\ IF FindEventExact
       THEN pc' = "returned" /\ call' = [call EXCEPT !.result = FindEventResult]
       ELSE pc' = "inexact" /\ call' = call
    /\ UNCHANGED <<script, err, n_x, n_y, args, sigma, box, pos, vel, active,
                   direction, chain_time, sample, time_to_sample,
                   sample_count, vel_max, printed, last>>

SpecFindEvent == InitFindEvent /\ [][CallFindEvent]_vars

\* the quantities of the collision-time formula, from the two disks' data
FERelVel == VecSub(vel[1], vel[2])
FERelPos == separation_vector(pos[1], pos[2], box)
FEScal == Dot(FERelVel, FERelPos)
FEUpsilon == QSub(QSq(FEScal),
                  QMul(NormSq(FERelVel), QSub(NormSq(FERelPos), FourSigmaSq(sigma))))
FEApproaching == QLt(Zero, FEUpsilon) /\ QLt(FEScal, Zero)

\* the squared centre distance at time t to the image of disk 2 that is
\* shifted by (k * Lx, l * Ly) from its minimum image at time 0
FEImageGap(k, l, t) ==
    NormSq(Advance(<<QAdd(FERelPos[1], QMul(QInt(k), box[1])),
                     QAdd(FERelPos[2], QMul(QInt(l), box[2]))>>, FERelVel, t))

\* the squared minimum-image centre distance of the two disks at time t
FEMinImageGap(t) ==
    NormSq(separation_vector(Advance(pos[1], vel[1], t),
                             Advance(pos[2], vel[2], t), box))

\* image (k, l) of disk 2 is at distance 2 * sigma at some time in [0, t)
FETouchBefore(k, l, t) ==
    LET d0 == <<QAdd(FERelPos[1], QMul(QInt(k), box[1])),
                QAdd(FERelPos[2], QMul(QInt(l), box[2]))>>
        c == QSub(NormSq(d0), FourSigmaSq(sigma))
        s == Dot(FERelVel, d0)
        v2 == NormSq(FERelVel)
        disc == QSub(QSq(s), QMul(v2, c))
        gapT == QSub(FEImageGap(k, l, t), FourSigmaSq(sigma))
    IN  /\ QLt(Zero, t)
        /\ IF c = Zero THEN TRUE
           ELSE IF v2 = Zero THEN FALSE
           ELSE IF QLt(c, Zero) THEN QLt(Zero, gapT)
           ELSE IF QLe(Zero, s) THEN FALSE
           ELSE IF QLt(QNeg(s), QMul(t, v2)) THEN QLe(Zero, disc)
           ELSE QLt(gapT, Zero)

\* C4 as claimed: for any two positions the result is infinite or the smallest
\* non-negative time at which the minimum-image separation is 2 * sigma, and
\* it is finite exactly when upsilon > 0 and scal < 0.
FindEventFirstTouch ==
    (script = "find_event" /\ pc = "returned") =>
        LET t == call.result
        IN  /\ ~IsInf(t) <=> FEApproaching
            /\ ~IsInf(t) =>
                  /\ QLe(Zero, t)
                  /\ FEMinImageGap(t) = FourSigmaSq(sigma)
                  /\ \A k, l \in -1..1 : ~FETouchBefore(k, l, t)

\* C4 amended: for two disks that do not overlap, the result is infinite or
\* the smallest non-negative time t with |dx + dv * t| = 2 * sigma, dx the
\* minimum-image separation at time 0 and dv the relative velocity; it is
\* finite exactly when upsilon > 0 and scal < 0.
FindEventFirstTouchApart ==
    (/\ script = "find_event" /\ pc = "returned"
     /\ PairApart(pos[1], pos[2], sigma, box)) =>
        LET t == call.result
        IN  /\ ~IsInf(t) <=> FEApproaching
            /\ ~IsInf(t) =>
                  /\ QLe(Zero, t)
                  /\ FEImageGap(0, 0, t) = FourSigmaSq(sigma)
                  /\ ~FETouchBefore(0, 0, t)

\* Not a claim: C4 as claimed but for disks that do not overlap.  It fails in
\* a box narrower than 4 * sigma, where the moving disk meets another periodic
\* image of the target before the image that was nearest at time 0.
FindEventFirstTouchNarrow ==
    PairApart(pos[1], pos[2], sigma, box) => FindEventFirstTouch

\* C4 witness: a finite, positive collision time was returned for two disks
\* that do not overlap and are hit off-centre by a moving disk.
FindEventWitness ==
    /\ script = "find_event" /\ pc = "returned"
    /\ PairApart(pos[1], pos[2], sigma, box)
    /\ ~IsInf(call.result) /\ QLt(Zero, call.result)
    /\ FERelPos[1] # Zero /\ FERelPos[2] # Zero

\* C3: create_packed either raises the fit error or returns exactly n
\* positions, all inside the box, no two of them closer than 2 * sigma under
\* periodic boundary conditions (the top row against the bottom row included).
PackedReturnsValid ==
    (script = "create_packed" /\ pc = "returned") =>
        /\ Len(pos) = n_x * n_y
        /\ PackedInBox(pos, box)
        /\ PackedNoOverlap(pos, sigma, box)

(***************************************************************************)
(* Specification Spec: one run of a script from its command line to its    *)
(* end.  Lines 62-76 compute sigma from eta and build the initial          *)
(* configuration; sigma is taken as the input (eta = n * pi * sigma^2).    *)
(* Every formula of the scripts is homogeneous in the unit of length, and  *)
(* the model measures lengths and times in tenths of the side of the unit  *)
(* square.  For the shape "crystal" the sides of the box are irrational    *)
(* (aspect ratio sqrt(3)/2 * n_y / n_x); the model takes 7/8 for sqrt(3)/2 *)
(* and a lattice spacing of 8.  The shape "rectangle" is left out.         *)
(* random.randint, random.uniform and sample_vel are choices from small    *)
(* sets; the unit vectors are the rational ones of sample_vel_set.  The    *)
(* event-chain scripts have no option sample_time and molecular_dynamics   *)
(* has neither chain_time nor n_chains: Init gives them one value each.    *)
(***************************************************************************)
MaxRunNx == 2
MaxRunNy == 3
MaxDisks == 3
MaxClock == 12
MaxSamples == 2

square_box == <<QInt(10), QInt(10)>>
crystal_cell == <<QInt(8), QInt(7)>>
RunSigmaSet == {Q(3, 2), QInt(2), Q(5, 2), Q(145, 48), Q(53, 14), Q(9, 2)}
sample_vel_set == {<<QInt(1), Zero>>, <<QInt(-1), Zero>>, <<Zero, QInt(1)>>,
                   <<Q(3, 5), Q(4, 5)>>}
uniform_set == {Zero, Q(3, 5), Q(4, 5)}
ArgsSet ==
    {[shape |-> sh, chain_time |-> QInt(t), n_chains |-> c, n_samples |-> s,
      sample_time |-> st] :
        sh \in {"square", "crystal"}, t \in {3, 5}, c \in 1..2,
        s \in 1..MaxSamples, st \in {QInt(2), Q(5, 2)}}

n == n_x * n_y
cutoff == QSub(QDiv(QMin(box[1], box[2]), QInt(2)), QMul(QInt(2), sigma))

ECMC == {"newtonian", "forward", "straight"}

Init ==
    /\ velocities = <<>> /\ t_current_chain = Zero
    /\ script \in ECMC \cup {"md"}
    /\ pc = "setup" /\ err = "none"
    /\ n_x \in 1..MaxRunNx /\ n_y \in 1..MaxRunNy /\ n_x * n_y <= MaxDisks
    /\ args \in ArgsSet /\ n_x * n_y * args.n_samples <= MaxDisks
    /\ IF script = "md" THEN args.chain_time = QInt(3) /\ args.n_chains = 1
       ELSE args.sample_time = QInt(2)
    /\ sigma \in RunSigmaSet
    /\ box = ZeroVec /\ pos = <<>> /\ vel = <<>>
    /\ active = 0 /\ direction = 0
    /\ chain_time = Zero /\ sample = 0
    /\ time_to_sample = Zero /\ sample_count = 0 /\ vel_max = Zero
    /\ printed = 0 /\ last = NoLast /\ call = NoCall

\* lines 65-76: the box and the initial configuration
setup_box ==
    IF args.shape = "square" THEN square_box
    ELSE <<QMul(crystal_cell[1], QInt(n_x)), QMul(crystal_cell[2], QInt(n_y))>>

setup_lattice ==
    IF args.shape = "square" THEN create_packed(n, sigma, setup_box)
    ELSE create_crystal(n_x, n_y, sigma, setup_box)

\* create_packed returns <<x, c>> for (x, c * sqrt3): rational when c = 0
setup_exact ==
    args.shape = "square" =>
        \A k \in 1..Len(setup_lattice.pos) : setup_lattice.pos[k][2] = Zero

\* line 76: pos as the scripts hold it, a list of (x, y)
setup_pos ==
    IF args.shape = "square"
    THEN [k \in 1..n |-> <<setup_lattice.pos[k][1], Zero>>]
    ELSE setup_lattice.pos

\* sample_vel(k): k unit vectors
sample_vel(k) == [1..k -> sample_vel_set]

\* molecular_dynamics.py, lines 76-83: the velocities minus their mean
RECURSIVE vel_total(_, _)
vel_total(vs, k) ==
    IF k = 0 THEN ZeroVec
    ELSE <<QAdd(vel_total(vs, k - 1)[1], vs[k][1]),
           QAdd(vel_total(vs, k - 1)[2], vs[k][2])>>

mean_vel(vs) ==
    <<QDiv(vel_total(vs, Len(vs))[1], QInt(Len(vs))),
      QDiv(vel_total(vs, Len(vs))[2], QInt(Len(vs)))>>

\* the velocities as drawn, the mean not taken off
raw_vel(vs) == vs

centered_vel(vs) == [k \in 1..Len(vs) |-> VecSub(vs[k], mean_vel(vs))]

\* max(math.sqrt(v[0] ** 2 + v[1] ** 2) for v in vel)
speeds_exact(vs) == \A k \in 1..Len(vs) : HasSqrt(NormSq(vs[k]))
\* the speed of the first disk, whatever the others
max_speed_first(vs) == Sqrt(NormSq(vs[1]))

max_speed(vs) ==
    LET s(k) == Sqrt(NormSq(vs[k]))
    IN  s(CHOOSE k \in 1..Len(vs) : \A m \in 1..Len(vs) : QLe(s(m), s(k)))

Setup ==
    /\ UNCHANGED <<velocities, t_current_chain>>
    /\ pc = "setup"
    /\ box' = setup_box
    /\ UNCHANGED <<script, n_x, n_y, args, sigma, active, chain_time, sample,
                   printed, last, call>>
    /\ IF setup_lattice.raised
       THEN /\ pc' = "raised" /\ err' = "RuntimeError"
            /\ UNCHANGED <<pos, vel, direction, time_to_sample, sample_count,
                           vel_max>>
       ELSE IF ~setup_exact
       THEN /\ pc' = "inexact"
            /\ UNCHANGED <<err, pos, vel, direction, time_to_sample,
                           sample_count, vel_max>>
       ELSE
         /\ pos' = setup_pos
         /\ err' = err
         /\ IF script = "md"
            THEN \E vs \in sample_vel(n) :
                   /\ vel' = centered_vel(vs)
                   /\ direction' = direction
                   /\ sample_count' = args.n_samples
                   /\ time_to_sample' = args.sample_time
                   /\ IF speeds_exact(centered_vel(vs))
                      THEN pc' = "while" /\ vel_max' = max_speed(centered_vel(vs))
                      ELSE pc' = "inexact" /\ vel_max' = vel_max
            ELSE /\ pc' = "for"
                 /\ direction' \in (IF script = "straight" THEN 0..1 ELSE {0})
                 /\ UNCHANGED <<vel, time_to_sample, sample_count, vel_max>>

\* the script stops at position p with exception e ("none": the model's
\* number domain is left)
Halt(p, e) ==
    /\ pc' = p /\ err' = e
    /\ UNCHANGED <<script, n_x, n_y, args, sigma, box, pos, vel, active,
                   direction, chain_time, sample, time_to_sample, sample_count,
                   vel_max, printed, last, call>>

(***************************************************************************)
(* The chain loop of the three event-chain scripts.                        *)
(***************************************************************************)
\* for sample in range(args.n_samples * args.n_chains): the head of a chain
StartChain ==
    /\ UNCHANGED <<velocities, t_current_chain>>
    /\ script \in ECMC /\ pc = "for"
    /\ sample < args.n_samples * args.n_chains
    /\ chain_time' = args.chain_time
    /\ active' \in 1..n
    /\ vel' \in (CASE script = "newtonian" -> sample_vel(n)
                   [] script = "forward" -> sample_vel_set
                   [] OTHER -> {vel})
    /\ pc' = "while"
    /\ last' = [NoLast EXCEPT !.event = "start"]
    /\ UNCHANGED <<script, err, n_x, n_y, args, sigma, box, pos, direction,
                   sample, time_to_sample, sample_count, vel_max, printed, call>>

\* the for loop is exhausted: the script ends
Finish ==
    /\ UNCHANGED <<velocities, t_current_chain>>
    /\ script \in ECMC /\ pc = "for"
    /\ sample >= args.n_samples * args.n_chains
    /\ Halt("done", "none")

\* the targets of the event list, in the order of range(n)
others(a) == SelectSeq([k \in 1..n |-> k], LAMBDA k : k # a)

\* a selection that takes the last event of the list, whatever its time
first_last(events) == events[Len(events)]

\* a selection that takes the last of the events of least time
least_last(events) ==
    LET least(k) == \A m \in 1..Len(events) : QLe(events[k].time, events[m].time)
    IN  events[CHOOSE k \in 1..Len(events) :
                   least(k) /\ \A m \in (k + 1)..Len(events) : ~least(m)]

\* min(events, key=...): the first event of least time.  (An event list is
\* bound by \E events \in {...}, which evaluates it once.)
first(events) ==
    LET least(k) == \A m \in 1..Len(events) : QLe(events[k].time, events[m].time)
    IN  events[CHOOSE k \in 1..Len(events) :
                   least(k) /\ \A m \in 1..(k - 1) : ~least(m)]

\* the loop body may run: the cap on the clock keeps the state space finite
ChainRuns == QLt(Zero, chain_time) /\ QLe(chain_time, QInt(MaxClock))

\* a move that puts every disk at the new position
move_all(ps, a, p) == [k \in 1..Len(ps) |-> p]

\* pos[active] = ...: the active disk a is put at p, the others stay
move_active(ps, a, p) == [ps EXCEPT ![a] = p]

\* a handover that keeps the active disk
handover_stays(a, event) == a

\* a handover that passes to the next disk, whatever the event
handover_next(a, event) == (a % n) + 1

\* active = target: after a pair event the target is the active disk (the
\* target of the horizon event is the active disk itself)
handover(a, event) == event.target

\* a horizon that is the remaining chain time alone
newtonian_time_cutoff_none == chain_time

StepRecord(kind, target, event_time, moved_by) ==
    [event |-> kind, target |-> target, event_time |-> event_time,
     before |-> chain_time, active |-> active, pos |-> pos, vel |-> vel,
     advanced |-> QAdd(last.advanced, moved_by)]

\* ECMC_Newtonian.py, lines 122-125
newtonian_time_cutoff ==
    QMin(chain_time, QDiv(cutoff, Sqrt(NormSq(vel[active]))))

newtonian_events ==
    [k \in 1..n |->
        IF k < n
        THEN [target |-> others(active)[k],
              time |-> find_event_newtonian(pos[active], pos[others(active)[k]],
                                            vel[active], sigma, box)]
        ELSE [target |-> active, time |-> newtonian_time_cutoff]]

newtonian_exact ==
    /\ HasSqrt(NormSq(vel[active]))
    /\ \A k \in 1..n : k # active =>
           exact_newtonian(pos[active], pos[k], vel[active], sigma, box)

\* ECMC_Newtonian.py, lines 133-139: the velocities after the collision of
\* the active disk a with the target t
newtonian_collision(vs, ps, a, t) ==
    LET exchange(e_parallel, dot) ==
            [vs EXCEPT ![a] = <<QAdd(vs[a][1], QMul(e_parallel[1], dot)),
                                QAdd(vs[a][2], QMul(e_parallel[2], dot))>>,
                       ![t] = <<QSub(vs[t][1], QMul(e_parallel[1], dot)),
                                QSub(vs[t][2], QMul(e_parallel[2], dot))>>]
        along(e_parallel) ==
            exchange(e_parallel, Dot(VecSub(vs[t], vs[a]), e_parallel))
        from(sep) == along(<<QDiv(QDiv(sep[1], QInt(2)), sigma),
                             QDiv(QDiv(sep[2], QInt(2)), sigma)>>)
    IN  from(separation_vector(ps[t], ps[a], box))

\* one pass of the while loop of ECMC_Newtonian.py, lines 121-140
NewtonianStep ==
    /\ UNCHANGED <<velocities, t_current_chain>>
    /\ script = "newtonian" /\ pc = "while" /\ ChainRuns
    /\ IF NormSq(vel[active]) = Zero THEN Halt("error", "ZeroDivisionError")
       ELSE IF ~newtonian_exact THEN Halt("inexact", "none")
       ELSE
         \E events \in {newtonian_events} : \E first_event \in {first(events)} :
         \E moved \in {move_active(pos, active,
                           correct_periodic_position(
                               Advance(pos[active], vel[active], first_event.time),
                               box))} :
             /\ pos' = moved
             /\ chain_time' = QSub(chain_time, first_event.time)
             /\ vel' = IF active # first_event.target
                       THEN newtonian_collision(vel, moved, active,
                                                first_event.target)
                       ELSE vel
             /\ active' = handover(active, first_event)
             /\ last' = StepRecord(IF active # first_event.target
                                   THEN "pair" ELSE "cutoff",
                                   first_event.target, first_event.time,
                                   first_event.time)
             /\ UNCHANGED <<script, pc, err, n_x, n_y, args, sigma, box,
                            direction, sample, time_to_sample, sample_count,
                            vel_max, printed, call>>

\* the while loop is left: lines 141-142, the sample is printed after every
\* n_chains-th chain (straight: and the direction is drawn anew, line 155)
\* a cadence that prints after every chain
sample_due_always(s) == TRUE

\* if (sample + 1) % args.n_chains == 0
sample_due(s) == (s + 1) % args.n_chains = 0

EndChain ==
    /\ UNCHANGED <<velocities, t_current_chain>>
    /\ script \in ECMC /\ pc = "while" /\ ~QLt(Zero, chain_time)
    /\ printed' = IF sample_due(sample) THEN printed + 1 ELSE printed
    /\ last' = [last EXCEPT !.event = IF sample_due(sample) THEN "print" ELSE "end"]
    /\ sample' = sample + 1
    /\ direction' \in (IF script = "straight" THEN 0..1 ELSE {direction})
    /\ pc' = "for"
    /\ UNCHANGED <<script, err, n_x, n_y, args, sigma, box, pos, vel, active,
                   chain_time, time_to_sample, sample_count, vel_max, call>>


\* ECMC_forward.py, lines 121-124: vel is the velocity of the chain
forward_events ==
    [k \in 1..n |->
        IF k < n
        THEN [target |-> others(active)[k],
              time |-> find_event_forward(pos[active], pos[others(active)[k]],
                                          vel, sigma, box)]
        ELSE [target |-> active, time |-> QMin(chain_time, cutoff)]]

forward_exact ==
    \A k \in 1..n : k # active =>
        exact_forward(pos[active], pos[k], vel, sigma, box)

\* ECMC_forward.py, lines 132-143: the velocity after the collision of the
\* active disk a with the target t, perp_value drawn by random.uniform
forward_collision(v, ps, a, t, perp_value) ==
    LET turn(e_parallel, sign_parallel, sign_perp, parallel_value) ==
            <<QSub(QMul(QMul(e_parallel[1], sign_parallel), parallel_value),
                   QMul(QMul(e_parallel[2], perp_value), sign_perp)),
              QAdd(QMul(QMul(e_parallel[2], sign_parallel), parallel_value),
                   QMul(QMul(e_parallel[1], perp_value), sign_perp))>>
        along(e_parallel) ==
            turn(e_parallel,
                 IF QLt(Dot(e_parallel, v), Zero) THEN QInt(-1) ELSE QInt(1),
                 IF QLt(QSub(QMul(e_parallel[2], v[1]),
                             QMul(e_parallel[1], v[2])), Zero)
                 THEN QInt(-1) ELSE QInt(1),
                 Sqrt(QSub(QInt(1), QSq(perp_value))))
        from(sep) == along(<<QDiv(QDiv(sep[1], QInt(2)), sigma),
                             QDiv(QDiv(sep[2], QInt(2)), sigma)>>)
    IN  from(separation_vector(ps[t], ps[a], box))

\* one pass of the while loop of ECMC_forward.py, lines 120-144
ForwardStep ==
    /\ UNCHANGED <<velocities, t_current_chain>>
    /\ script = "forward" /\ pc = "while" /\ ChainRuns
    /\ IF ~forward_exact THEN Halt("inexact", "none")
       ELSE
         \E events \in {forward_events} : \E first_event \in {first(events)} :
         \E moved \in {move_active(pos, active,
                           correct_periodic_position(
                               Advance(pos[active], vel, first_event.time), box))} :
             /\ pos' = moved
             /\ chain_time' = QSub(chain_time, first_event.time)
             /\ IF active # first_event.target
                THEN \E perp_value \in uniform_set :
                        vel' = forward_collision(vel, moved, active,
                                                 first_event.target, perp_value)
                ELSE vel' = vel
             /\ active' = handover(active, first_event)
             /\ last' = StepRecord(IF active # first_event.target
                                   THEN "pair" ELSE "cutoff",
                                   first_event.target, first_event.time,
                                   first_event.time)
             /\ UNCHANGED <<script, pc, err, n_x, n_y, args, sigma, box,
                            direction, sample, time_to_sample, sample_count,
                            vel_max, printed, call>>

\* ECMC_straight.py, lines 113-126: the result is (time, delta_x); the
\* direction d is 0 or 1, coordinate d + 1 of the model
\* the perpendicular distance within the box, no periodic image taken
straight_perp_direct(pos_active, pos_target, d, b) ==
    QAbs(QSub(pos_target[2 - d], pos_active[2 - d]))

straight_perp(pos_active, pos_target, d, b) ==
    LET nearer(distance_perp) == QMin(distance_perp, QSub(b[2 - d], distance_perp))
    IN  nearer(QAbs(QSub(pos_target[2 - d], pos_active[2 - d])))

find_event_straight(pos_active, pos_target, d, sg, b) ==
    LET result(distance_para, delta_x) ==
            [time |-> QSub(distance_para, delta_x), delta_x |-> delta_x]
        along(distance_perp, difference) ==
            IF QLe(QMul(QInt(2), sg), distance_perp) \/ difference = Zero
            THEN [time |-> Inf, delta_x |-> Zero]
            ELSE result(IF QLt(difference, Zero)
                        THEN QAdd(difference, b[d + 1]) ELSE difference,
                        Sqrt(QSub(FourSigmaSq(sg), QSq(distance_perp))))
    IN  along(straight_perp(pos_active, pos_target, d, b),
              QSub(pos_target[d + 1], pos_active[d + 1]))

\* the square root of line 124 is taken and is rational, or none is taken
exact_straight(pos_active, pos_target, d, sg, b) ==
    LET along(distance_perp, difference) ==
            (QLt(distance_perp, QMul(QInt(2), sg)) /\ difference # Zero) =>
                HasSqrt(QSub(FourSigmaSq(sg), QSq(distance_perp)))
    IN  along(straight_perp(pos_active, pos_target, d, b),
              QSub(pos_target[d + 1], pos_active[d + 1]))

\* ECMC_straight.py, lines 134-136
straight_events ==
    [k \in 1..n |->
        IF k < n
        THEN [target |-> others(active)[k],
              time |-> find_event_straight(pos[active], pos[others(active)[k]],
                                           direction, sigma, box).time]
        ELSE [target |-> active, time |-> chain_time]]

straight_exact ==
    \A k \in 1..n : k # active =>
        exact_straight(pos[active], pos[k], direction, sigma, box)

\* lines 142-143: while pos[active][direction] > box[direction]: subtract
RECURSIVE straight_fold(_, _)
straight_fold(x, side) ==
    IF QLt(side, x) THEN straight_fold(QSub(x, side), side) ELSE x

\* the time of the event without the clamp
straight_advance_raw(event_time) == event_time

\* line 141: the active disk advances by max(event_time, 0.0)
straight_advance(event_time) == QMax(event_time, Zero)

\* the position p with the coordinate across the direction d set to x
straight_moved_across(p, d, x) == [p EXCEPT ![2 - d] = x]

\* lines 141-143: pos[active][direction] is the only coordinate written
straight_moved(p, d, x) == [p EXCEPT ![d + 1] = x]

\* one pass of the while loop of ECMC_straight.py, lines 133-146 (the sums
\* sum_delta_x and sum_chain_time are written and never read)
StraightStep ==
    /\ UNCHANGED <<velocities, t_current_chain>>
    /\ script = "straight" /\ pc = "while" /\ ChainRuns
    /\ IF ~straight_exact THEN Halt("inexact", "none")
       ELSE
         \E events \in {straight_events} : \E first_event \in {first(events)} :
             /\ pos' = move_active(pos, active,
                           straight_moved(pos[active], direction,
                               straight_fold(QAdd(pos[active][direction + 1],
                                                  straight_advance(first_event.time)),
                                             box[direction + 1])))
             /\ active' = handover(active, first_event)
             /\ chain_time' = QSub(chain_time, first_event.time)
             /\ last' = StepRecord(IF active # first_event.target
                                   THEN "pair" ELSE "cutoff",
                                   first_event.target, first_event.time,
                                   straight_advance(first_event.time))
             /\ UNCHANGED <<script, pc, err, n_x, n_y, args, sigma, box, vel,
                            direction, sample, time_to_sample, sample_count,
                            vel_max, printed, call>>

(***************************************************************************)
(* The event loop of molecular_dynamics.py.  An event is (i, j, time):     *)
(* a pair i < j of disks, (-1, -1) for the horizon, (-2, -2) for the       *)
(* sample.                                                                 *)
(***************************************************************************)
\* [(i, j) for i in range(n) for j in range(i + 1, n)]
md_pairs ==
    SelectSeq([k \in 1..(n * n) |-> <<((k - 1) \div n) + 1, ((k - 1) % n) + 1>>],
              LAMBDA p : p[1] < p[2])

\* molecular_dynamics.py, lines 133-141
md_events ==
    [k \in 1..(Len(md_pairs) + 2) |->
        IF k <= Len(md_pairs)
        THEN [i |-> md_pairs[k][1], j |-> md_pairs[k][2],
              time |-> find_event_md(pos[md_pairs[k][1]], vel[md_pairs[k][1]],
                                     pos[md_pairs[k][2]], vel[md_pairs[k][2]],
                                     sigma, box)]
        ELSE IF k = Len(md_pairs) + 1
        THEN [i |-> -1, j |-> -1,
              time |-> QDiv(QDiv(cutoff, vel_max), QInt(2))]
        ELSE [i |-> -2, j |-> -2, time |-> time_to_sample]]

md_exact ==
    \A k \in 1..Len(md_pairs) :
        exact_md(pos[md_pairs[k][1]], vel[md_pairs[k][1]],
                 pos[md_pairs[k][2]], vel[md_pairs[k][2]], sigma, box)

\* a collision that changes the velocity of disk i alone
md_collision_one_sided(vs, ps, i, j) ==
    LET along(delta_x) ==
            [vs EXCEPT ![i] = <<QAdd(vs[i][1], delta_x[1]), QAdd(vs[i][2], delta_x[2])>>]
    IN  along(separation_vector(ps[j], ps[i], box))

\* a collision that turns every velocity around
md_collision_all(vs, ps, i, j) == [k \in 1..Len(vs) |-> VecSub(ZeroVec, vs[k])]

\* molecular_dynamics.py, lines 149-155: the velocities after the collision
\* of the disks i and j
md_collision(vs, ps, i, j) ==
    LET exchange(dir, delta_v_dot_direction) ==
            [vs EXCEPT ![i] = <<QAdd(vs[i][1], QMul(dir[1], delta_v_dot_direction)),
                                QAdd(vs[i][2], QMul(dir[2], delta_v_dot_direction))>>,
                       ![j] = <<QSub(vs[j][1], QMul(dir[1], delta_v_dot_direction)),
                                QSub(vs[j][2], QMul(dir[2], delta_v_dot_direction))>>]
        along(dir) == exchange(dir, Dot(VecSub(vs[j], vs[i]), dir))
        scaled(delta_x, delta_x_norm) ==
            along(<<QDiv(delta_x[1], delta_x_norm), QDiv(delta_x[2], delta_x_norm)>>)
        from(delta_x) == scaled(delta_x, Sqrt(NormSq(delta_x)))
    IN  from(separation_vector(ps[j], ps[i], box))

\* the moves of all disks by the time t, lines 145-146
md_moved(t) ==
    [m \in 1..n |-> correct_periodic_position(Advance(pos[m], vel[m], t), box)]

\* what a pass of the loop did; advanced is the sum of the times of the passes
\* since the last sample, printed the number of samples before the pass,
\* horizon the time of the horizon event of the pass
MDRecord(kind, i, j, t) ==
    [event |-> kind, target |-> j, event_time |-> t, before |-> time_to_sample,
     active |-> i, pos |-> pos, vel |-> vel, printed |-> printed,
     horizon |-> QDiv(QDiv(cutoff, vel_max), QInt(2)),
     advanced |-> QAdd(IF last.event = "print" THEN Zero ELSE last.advanced, t)]

\* one pass of the while loop of molecular_dynamics.py, lines 132-165
MDStep ==
    /\ UNCHANGED <<velocities, t_current_chain>>
    /\ script = "md" /\ pc = "while" /\ sample_count > 0
    /\ QLe(time_to_sample, QInt(MaxClock))
    /\ IF vel_max = Zero THEN Halt("error", "ZeroDivisionError")
       ELSE IF ~md_exact THEN Halt("inexact", "none")
       ELSE
         \E events \in {md_events} : \E first_event \in {first(events)} :
         \E moved \in {md_moved(first_event.time)} :
         \E i \in {first_event.i} : \E j \in {first_event.j} :
         \E gap \in {IF i # j
                      THEN NormSq(separation_vector(moved[j], moved[i], box))
                      ELSE QInt(1)} :
             IF gap = Zero THEN Halt("error", "ZeroDivisionError")
             ELSE IF ~HasSqrt(gap) THEN Halt("inexact", "none")
             ELSE
               \E after \in {IF i # j THEN md_collision(vel, moved, i, j) ELSE vel} :
               IF ~speeds_exact(after) THEN Halt("inexact", "none")
               ELSE
                 /\ pos' = moved
                 /\ vel' = after
                 /\ time_to_sample' = IF i = -2 THEN args.sample_time
                                      ELSE QSub(time_to_sample, first_event.time)
                 /\ sample_count' = IF i = -2 THEN sample_count - 1
                                    ELSE sample_count
                 /\ vel_max' = IF i = -2 THEN max_speed(after)
                               ELSE IF i # j
                               THEN QMax(QMax(vel_max, Sqrt(NormSq(after[i]))),
                                         Sqrt(NormSq(after[j])))
                               ELSE vel_max
                 /\ printed' = IF i = -2 THEN printed + 1 ELSE printed
                 /\ last' = MDRecord(IF i = -2 THEN "print"
                                     ELSE IF i = -1 THEN "cutoff" ELSE "pair",
                                     i, j, first_event.time)
                 /\ UNCHANGED <<script, pc, err, n_x, n_y, args, sigma, box,
                                active, direction, chain_time, sample, call>>

\* while sample_count > 0 fails: the script ends
MDFinish ==
    /\ UNCHANGED <<velocities, t_current_chain>>
    /\ script = "md" /\ pc = "while" /\ sample_count <= 0
    /\ Halt("done", "none")

Next ==
    \/ Setup
    \/ StartChain \/ NewtonianStep \/ ForwardStep \/ StraightStep \/ EndChain
    \/ Finish
    \/ MDStep \/ MDFinish

Spec == Init /\ [][Next]_vars

(***************************************************************************)
(* Properties of the runs.                                                 *)
(***************************************************************************)
StartApart == pc # "setup" /\ NoOverlap(setup_pos, sigma, box)
Sampled == last.event = "print"

\* C1: in every sample printed by a run of any of the four scripts that
\* started from a configuration without overlap, every two distinct disks
\* are at a periodic distance of at least 2 * sigma.
SamplesApart == (Sampled /\ StartApart) => NoOverlap(pos, sigma, box)

\* a sample of at least two disks that is not the initial configuration
SamplesApartWitness == Sampled /\ StartApart /\ n >= 2 /\ pos # setup_pos

\* C5: no run of a script ends with an exception raised in its loop (zero
\* speeds, pairs that never collide and a single disk included).
DegenerateNeverRaises == pc # "error"

\* C6: when a chain ends, the moves of its active disks add up to the chain
\* time of the command line and the remaining chain time is exactly 0.
ChainEnd ==
    /\ script \in ECMC /\ pc = "while" /\ ~QLt(Zero, chain_time)
    /\ last.event \in {"pair", "cutoff"}
ChainTimeConsumed ==
    ChainEnd => (chain_time = Zero /\ last.advanced = args.chain_time)

\* C7: every event time chosen in a chain is at least 0 and at most the
\* chain time that remained before the step.
Stepped == script \in ECMC /\ last.event \in {"pair", "cutoff"}
EventTimeInChain ==
    Stepped => (QLe(Zero, last.event_time) /\ QLe(last.event_time, last.before))

\* the last pass of the loop chose the horizon event at time 0 and left the
\* positions, the velocities, the active disk and the clock as they were:
\* the next pass computes the same event from the same values, without end
Stuck ==
    /\ pc = "while" /\ last.event = "cutoff" /\ last.event_time = Zero
    /\ last.pos = pos /\ last.vel = vel
    /\ IF script = "md" THEN sample_count > 0 ELSE QLt(Zero, chain_time)

\* C8: every run whose lattice construction succeeds ends, and has then
\* printed exactly n_samples samples: it is never caught in its loop, it
\* does not end by an exception, and at its end the samples are complete.
RunCompletes ==
    /\ ~Stuck
    /\ pc # "error"
    /\ pc = "done" => printed = args.n_samples

RECURSIVE energy_total(_, _)
energy_total(vs, k) ==
    IF k = 0 THEN Zero ELSE QAdd(energy_total(vs, k - 1), NormSq(vs[k]))

Conserved(before, after) ==
    /\ vel_total(before, Len(before)) = vel_total(after, Len(after))
    /\ energy_total(before, Len(before)) = energy_total(after, Len(after))

\* the component of the relative velocity of i and j along their separation
\* has changed its sign
Reflected(before, after, ps, i, j) ==
    LET along(vs, delta_x) == Dot(VecSub(vs[j], vs[i]), delta_x)
    IN  \E delta_x \in {separation_vector(ps[j], ps[i], box)} :
            along(after, delta_x) = QNeg(along(before, delta_x))

\* C9: a pair collision of molecular dynamics leaves the sum of the
\* velocities and the sum of their squares as they were, and reverses the
\* relative velocity along the separation of the two disks.
MDCollisionConserves ==
    (script = "md" /\ last.event = "pair") =>
        /\ Conserved(last.vel, vel)
        /\ Reflected(last.vel, vel, pos, last.active, last.target)

MDCollisionWitness == script = "md" /\ last.event = "pair" /\ vel # last.vel

(***************************************************************************)
(* Specification SpecSeparation: one call separation_vector(a, b, box) on  *)
(* every two points a, b of the box with half-integer coordinates.         *)
(***************************************************************************)
MaxSepSide == 4
SepBoxSet == {<<QInt(lx), QInt(ly)>> : lx, ly \in (MaxSepSide - 1)..MaxSepSide}

InitSeparation ==
    /\ velocities = <<>> /\ t_current_chain = Zero
    /\ script = "separation_vector" /\ pc = "call" /\ err = "none"
    /\ n_x = 2 /\ n_y = 1 /\ sigma = Zero
    /\ box \in SepBoxSet
    /\ pos \in {<<a, b>> : a \in Grid(box), b \in {p \in Grid(box) : p[2][2] = 1}}
    /\ call = [fn |-> "separation_vector", result |-> ZeroVec]
    /\ args = NoArgs
    /\ vel = <<>> /\ active = 0 /\ direction = 0
    /\ chain_time = Zero /\ sample = 0
    /\ time_to_sample = Zero /\ sample_count = 0 /\ vel_max = Zero
    /\ printed = 0 /\ last = NoLast

CallSeparation ==
    /\ UNCHANGED <<velocities, t_current_chain>>
    /\ script = "separation_vector" /\ pc = "call"
    /\ pc' = "returned"
    /\ call' = [call EXCEPT !.result = separation_vector(pos[1], pos[2], box)]
    /\ UNCHANGED <<script, err, n_x, n_y, args, sigma, box, pos, vel, active,
                   direction, chain_time, sample, time_to_sample,
                   sample_count, vel_max, printed, last>>

SpecSeparation == InitSeparation /\ [][CallSeparation]_vars

\* a - b shifted by k box lengths in x and l box lengths in y
ShiftedImage(raw, k, l) ==
    <<QAdd(raw[1], QMul(QInt(k), box[1])), QAdd(raw[2], QMul(QInt(l), box[2]))>>

InHalfOpenHalf(c, side) ==
    QLt(QNeg(QDiv(side, QInt(2))), c) /\ QLe(c, QDiv(side, QInt(2)))

\* C11: separation_vector(a, b, box) is a periodic image of a - b, no longer
\* than a - b shifted by any of the 9 offsets (k * Lx, l * Ly), k, l in
\* {-1, 0, 1}, and each of its components lies in (-side / 2, side / 2].
SeparationShortestImage ==
    (script = "separation_vector" /\ pc = "returned") =>
        \E raw \in {VecSub(pos[1], pos[2])} : \E d \in {call.result} :
            /\ \E k, l \in -1..1 : d = ShiftedImage(raw, k, l)
            /\ \A k, l \in -1..1 : QLe(NormSq(d), NormSq(ShiftedImage(raw, k, l)))
            /\ InHalfOpenHalf(d[1], box[1]) /\ InHalfOpenHalf(d[2], box[2])

\* a call that folded the x component back and wrapped the y component up
SeparationWitness ==
    /\ script = "separation_vector" /\ pc = "returned"
    /\ QLt(call.result[1], Zero) /\ QLt(pos[2][1], pos[1][1])
    /\ QLt(Zero, call.result[2]) /\ QLt(pos[1][2], pos[2][2])

(***************************************************************************)
(* Specification SpecWrap: one call correct_periodic_position(position,    *)
(* box), line 45 of common.py, on Python floats.  The scripts compute on   *)
(* binary floating-point numbers; whether p % b reaches the side b is      *)
(* decided by the rounding of one addition, so the call is modelled on     *)
(* binary floats of FloatPrecision significant bits (53 in Python), as     *)
(* CPython computes it: the exact remainder fmod(p, b), to which b is      *)
(* added, and the sum rounded, when its sign differs from that of b.       *)
(* Wherever that sum is a float the result is that of the exact            *)
(* correct_periodic_position above.                                        *)
(***************************************************************************)
FloatPrecision == 3
FloatMinExp == 5
MaxMantissa == 7

RECURSIVE Pow2(_)
Pow2(k) == IF k = 0 THEN 1 ELSE 2 * Pow2(k - 1)

\* round to nearest, ties to even, of count = q / unit
RoundHalfEven(count, whole) ==
    IF QLt(Q(1, 2), QSub(count, QInt(whole))) THEN whole + 1
    ELSE IF QLt(QSub(count, QInt(whole)), Q(1, 2)) THEN whole
    ELSE IF whole % 2 = 0 THEN whole ELSE whole + 1

\* the float nearest to q > 0, with unit the weight of its last bit
RECURSIVE RoundWith(_, _)
RoundWith(q, unit) ==
    IF QLe(QMul(QInt(Pow2(FloatPrecision)), unit), q)
    THEN RoundWith(q, QMul(unit, QInt(2)))
    ELSE IF QLt(q, QMul(QInt(Pow2(FloatPrecision - 1)), unit))
    THEN RoundWith(q, QDiv(unit, QInt(2)))
    ELSE QMul(QInt(RoundHalfEven(QDiv(q, unit), Floor(QDiv(q, unit)))), unit)

FloatRound(q) ==
    IF q = Zero THEN Zero
    ELSE IF QLt(q, Zero) THEN QNeg(RoundWith(QNeg(q), QInt(1)))
    ELSE RoundWith(q, QInt(1))

\* C fmod: the exact remainder, with the sign of x
Trunc(q) == IF QLt(q, Zero) THEN -Floor(QNeg(q)) ELSE Floor(q)
fmod(x, y) == QSub(x, QMul(y, QInt(Trunc(QDiv(x, y)))))

\* Python's x % y on floats
float_rem(x, y) ==
    LET adjust(mod) ==
            IF mod # Zero /\ (QLt(y, Zero) # QLt(mod, Zero))
            THEN FloatRound(QAdd(mod, y)) ELSE mod
    IN  adjust(fmod(x, y))

\* return [p % b for p, b in zip(position, box)]
correct_periodic_position_float(position, b) ==
    <<float_rem(position[1], b[1]), float_rem(position[2], b[2])>>

\* the floats +-m * 2^-e of the inputs
WrapFloats ==
    {Q(s * m, Pow2(e)) : s \in {-1, 1}, m \in 0..MaxMantissa, e \in 0..FloatMinExp}
WrapSides == {QInt(1), Q(3, 2)}

InitWrap ==
    /\ velocities = <<>> /\ t_current_chain = Zero
    /\ script = "correct_periodic_position" /\ pc = "call" /\ err = "none"
    /\ n_x = 1 /\ n_y = 1 /\ sigma = Zero
    /\ box \in {<<lx, QInt(1)>> : lx \in WrapSides}
    /\ pos \in {<<<<x, y>>>> : x \in WrapFloats, y \in {Q(-1, 2), Q(5, 4)}}
    /\ call = [fn |-> "correct_periodic_position", result |-> ZeroVec]
    /\ args = NoArgs
    /\ vel = <<>> /\ active = 0 /\ direction = 0
    /\ chain_time = Zero /\ sample = 0
    /\ time_to_sample = Zero /\ sample_count = 0 /\ vel_max = Zero
    /\ printed = 0 /\ last = NoLast

CallWrap ==
    /\ UNCHANGED <<velocities, t_current_chain>>
    /\ script = "correct_periodic_position" /\ pc = "call"
    /\ pc' = "returned"
    /\ call' = [call EXCEPT !.result = correct_periodic_position_float(pos[1], box)]
    /\ UNCHANGED <<script, err, n_x, n_y, args, sigma, box, pos, vel, active,
                   direction, chain_time, sample, time_to_sample,
                   sample_count, vel_max, printed, last>>

SpecWrap == InitWrap /\ [][CallWrap]_vars

\* c is the float nearest to the number of [0, side) congruent to p
Congruent(c, p, side) == c = FloatRound(QMod(p, side))

\* C12: correct_periodic_position returns each coordinate in [0, side),
\* congruent to the input modulo side (up to the rounding of the result),
\* and applied to its own result it returns that result.
WrapIntoBox ==
    (script = "correct_periodic_position" /\ pc = "returned") =>
        /\ \A d \in 1..2 :
              /\ QLe(Zero, call.result[d]) /\ QLt(call.result[d], box[d])
              /\ Congruent(call.result[d], pos[1][d], box[d])
        /\ correct_periodic_position_float(call.result, box) = call.result

\* remarks: the result always lies in [0, side]; it is the side only for a
\* negative input; and it is in [0, side) wherever the sum is a float
WrapIntoClosedBox ==
    (script = "correct_periodic_position" /\ pc = "returned") =>
        \A d \in 1..2 : QLe(Zero, call.result[d]) /\ QLe(call.result[d], box[d])
WrapExactAgrees ==
    (script = "correct_periodic_position" /\ pc = "returned"
        /\ call.result = correct_periodic_position(pos[1], box)) =>
        \A d \in 1..2 : QLt(call.result[d], box[d])

\* C14: in the event-chain scripts a sample is printed after every
\* n_chains-th finished chain and at no other point: at every moment the
\* number of samples printed is the number of finished chains divided by
\* n_chains, and a run that ends has run n_samples * n_chains chains and
\* printed n_samples samples.
SampleCadence ==
    script \in ECMC =>
        /\ pc # "setup" => printed = sample \div args.n_chains
        /\ Sampled => (sample > 0 /\ sample % args.n_chains = 0)
        /\ (pc = "for" /\ sample > 0 /\ sample % args.n_chains = 0) => Sampled
        /\ pc = "done" =>
              sample = args.n_samples * args.n_chains /\ printed = args.n_samples

\* the second sample of a run that prints after every second chain
SampleCadenceWitness ==
    /\ script \in ECMC /\ pc = "done" /\ args.n_chains = 2 /\ printed = 2

\* C15: after every step of the four scripts, and in every sample, each
\* coordinate of every disk lies in [0, side).
PositionsInBox ==
    (script \in ECMC \cup {"md"} /\ pc \in {"for", "while", "done"}) =>
        InBox(pos, box)

\* the events of the pass that the active disk is about to make
chain_events ==
    CASE script = "newtonian" -> newtonian_events
      [] script = "forward" -> forward_events
      [] OTHER -> straight_events

\* a pass of a chain loop that selects an event
ChainPass == script \in ECMC /\ pc = "while" /\ pc' = "while" /\ last' # last

\* C16: one disk is active at a time; a pass of a chain loop selects an
\* event of least time among all candidates, and after a pair event the
\* active disk is the target of that event and no longer the previous one.
ActiveHandover ==
    /\ [](script \in ECMC /\ pc = "while" => active \in 1..n)
    /\ [][ChainPass =>
            \E events \in {chain_events} : \E k \in 1..Len(events) :
                /\ events[k].target = last'.target
                /\ events[k].time = last'.event_time
                /\ \A m \in 1..Len(events) : QLe(events[k].time, events[m].time)
                /\ active' = events[k].target
                /\ last'.event = "pair" => active' # active]_vars

\* a pair event among three disks
ActiveHandoverWitness ==
    script \in ECMC /\ last.event = "pair" /\ n = 3 /\ active = last.target

\* C17: a horizon event of the Newtonian and forward scripts leaves the
\* active disk, every velocity and the positions of the other disks as
\* they were.
HorizonEvent == script \in {"newtonian", "forward"} /\ last.event = "cutoff"
HorizonLeavesPhysics ==
    HorizonEvent =>
        /\ active = last.active /\ vel = last.vel
        /\ \A k \in 1..n : k # active => pos[k] = last.pos[k]

\* a horizon event, earlier than the end of the chain, that moved the disk
HorizonWitness ==
    /\ HorizonEvent /\ n >= 2 /\ QLt(last.event_time, last.before)
    /\ pos # last.pos

\* the signed advance t * speed is at most c (vsq the squared speed)
AdvanceWithin(t, vsq, c) ==
    IF QLe(Zero, t) THEN QLe(Zero, c) /\ QLe(QMul(QSq(t), vsq), QSq(c))
    ELSE QLe(Zero, c) \/ QLe(QSq(c), QMul(QSq(t), vsq))

\* the squared speed of the active disk in the last pass
last_speed_sq ==
    CASE script = "newtonian" -> NormSq(last.vel[last.active])
      [] script = "forward" -> NormSq(last.vel)
      [] OTHER -> QInt(1)

\* C18, as claimed: in each of the three event-chain scripts the horizon is
\* among the events, so no pass advances the active disk by more than
\* min(Lx, Ly) / 2 - 2 * sigma.
HorizonBoundsAdvanceAll ==
    Stepped => AdvanceWithin(last.event_time, last_speed_sq, cutoff)

\* C18, amended: so it is in the Newtonian and the forward script (the
\* straight script has the remaining chain time as its only other event).
HorizonBoundsAdvance ==
    (Stepped /\ script # "straight") =>
        AdvanceWithin(last.event_time, last_speed_sq, cutoff)

\* a pass that advanced the active disk by exactly the horizon
HorizonBoundsWitness ==
    /\ HorizonEvent /\ QLt(Zero, last.event_time)
    /\ QLt(last.event_time, last.before)
    /\ QMul(QSq(last.event_time), last_speed_sq) = QSq(cutoff)

\* C19: a pass of a chain loop changes the position of the active disk
\* only.
OnlyActiveMoves ==
    Stepped => \A k \in 1..n : k # last.active => pos[k] = last.pos[k]

\* a pair event that moved the active disk up to its target
OnlyActiveMovesWitness ==
    /\ Stepped /\ last.event = "pair" /\ n >= 2
    /\ pos[last.active] # last.pos[last.active]

\* C20: in molecular dynamics vel_max is at least the speed of every disk,
\* does not decrease from one pass to the next unless a sample is printed,
\* and is the greatest speed right after a sample.
VelMaxBounds ==
    /\ []((script = "md" /\ pc = "while") =>
            /\ \A k \in 1..n : QLe(NormSq(vel[k]), QSq(vel_max))
            /\ Sampled => \E k \in 1..n : NormSq(vel[k]) = QSq(vel_max))
    /\ [][(script = "md" /\ pc = "while" /\ last'.event # "print") =>
            QLe(vel_max, vel_max')]_vars

\* a collision among three disks that changed velocities
VelMaxWitness ==
    script = "md" /\ last.event = "pair" /\ n = 3 /\ vel # last.vel

\* floor(2^k * r / q) for 0 <= r < q, digit by digit as in a long division,
\* so that no product leaves the range of the integers
EnergyBits == 8
RECURSIVE BinaryDigits(_, _, _)
BinaryDigits(r, q, k) ==
    IF k = 0 THEN 0
    ELSE IF r >= q - r
         THEN Pow2(k - 1) + BinaryDigits(r - (q - r), q, k - 1)
         ELSE BinaryDigits(r + r, q, k - 1)

\* the greatest whole number of 1/2^EnergyBits below x, for x >= 0
FloorScaled(x) ==
    (x[1] \div x[2]) * Pow2(EnergyBits) + BinaryDigits(x[1] % x[2], x[2], EnergyBits)

\* the kinetic energy sum(v * v) in units of 1/2^EnergyBits, every square
\* rounded down: the sum itself lies in [energy_floor, energy_floor + 2 * n)
RECURSIVE energy_floor(_, _)
energy_floor(vs, k) ==
    IF k = 0 THEN 0
    ELSE energy_floor(vs, k - 1)
            + FloorScaled(QSq(vs[k][1])) + FloorScaled(QSq(vs[k][2]))

\* C10: a pair collision of the Newtonian script leaves the sum of the
\* velocities as it was, and the sum of their squares too: two equal sums
\* have floors less than 2 * n apart.
NewtonianCollisionConserves ==
    (script = "newtonian" /\ last.event = "pair") =>
        /\ vel_total(last.vel, n) = vel_total(vel, n)
        /\ Abs(energy_floor(last.vel, n) - energy_floor(vel, n)) < 2 * n

(***************************************************************************)
(* The event loop of molecular_dynamics.py: times, velocities, ties.       *)
(***************************************************************************)
\* a pass of the loop of molecular_dynamics.py has selected an event
MDPassed == script = "md" /\ last.event \in {"pair", "cutoff", "print"}

\* C21: in molecular dynamics the times of the passes between two samples
\* sum to sample_time, the time of every pass is in [0, time to the next
\* sample], and a sample is printed only by a pass that selected the
\* sampling event.
MDSampleClock ==
    MDPassed =>
        /\ last.event = "print" => last.advanced = args.sample_time
        /\ QLe(Zero, last.event_time) /\ QLe(last.event_time, last.before)
        /\ printed # last.printed => last.event = "print"

\* C22: in molecular dynamics a pass that selected the horizon or the
\* sampling event changes no velocity, and a pass that selected a pair
\* changes at most the velocities of the two disks of the pair.
MDVelocityFrame ==
    MDPassed =>
        /\ last.event \in {"cutoff", "print"} => vel = last.vel
        /\ last.event = "pair" =>
              \A k \in 1..n :
                  k \notin {last.active, last.target} => vel[k] = last.vel[k]

\* a collision among three disks that changed both disks of the pair and
\* left a moving third disk as it was
MDVelocityFrameWitness ==
    /\ script = "md" /\ last.event = "pair" /\ n = 3
    /\ vel[last.active] # last.vel[last.active]
    /\ vel[last.target] # last.vel[last.target]
    /\ \E k \in 1..n : k \notin {last.active, last.target} /\ vel[k] # ZeroVec

(***************************************************************************)
(* The chain loop of ECMC_straight.py.                                     *)
(***************************************************************************)
\* a pass of the chain loop of ECMC_straight.py has selected an event
StraightPassed ==
    script = "straight" /\ pc = "while" /\ last.event \in {"pair", "cutoff"}

\* x is y plus a whole number 0, 1, 2, ... of sides
FoldedFrom(x, y, side) ==
    \E k \in 0..MaxClock : QAdd(x, QMul(QInt(k), side)) = y

\* C23: in the straight script the active disk never moves backward: a pass
\* adds max(event_time, 0) >= 0 to its coordinate along the direction of the
\* chain and then folds it into the box, also when the time of the event is
\* negative.
StraightNeverBackward ==
    StraightPassed =>
        \E moved_by \in {IF QLt(last.event_time, Zero) THEN Zero
                         ELSE last.event_time} :
            FoldedFrom(pos[last.active][direction + 1],
                       QAdd(last.pos[last.active][direction + 1], moved_by),
                       box[direction + 1])

\* a pass whose event has a negative time and left the active disk in place
StraightNeverBackwardWitness ==
    /\ StraightPassed /\ QLt(last.event_time, Zero)
    /\ pos[last.active] = last.pos[last.active]

(***************************************************************************)
(* Specification SpecStraightEvent: one call of find_event of              *)
(* ECMC_straight.py on two disks of the half-integer grid of the box, with *)
(* sigma = FEDiameter / 2.  vel[1] is the unit vector of the direction,    *)
(* vel[2] the zero vector (the target does not move).                      *)
(***************************************************************************)
SEActiveCoordinate == 4
SEActiveSet == {<<QInt(x), QInt(y)>> : x, y \in {0, SEActiveCoordinate}}
unit_vector(d) == IF d = 0 THEN <<QInt(1), Zero>> ELSE <<Zero, QInt(1)>>

InitStraightEvent ==
    /\ velocities = <<>> /\ t_current_chain = Zero
    /\ script = "find_event_straight" /\ pc = "call" /\ err = "none"
    /\ n_x = 2 /\ n_y = 1
    /\ sigma = Q(FEDiameter, 2)
    /\ box \in FEBoxSet
    /\ pos \in {<<a, p>> : a \in SEActiveSet, p \in Grid(box)}
    /\ direction \in 0..1
    /\ vel = <<unit_vector(direction), ZeroVec>>
    /\ call = [fn |-> "find_event", solver |-> "straight", result |-> Inf,
               delta_x |-> Zero]
    /\ args = NoArgs
    /\ active = 0
    /\ chain_time = Zero /\ sample = 0
    /\ time_to_sample = Zero /\ sample_count = 0 /\ vel_max = Zero
    /\ printed = 0 /\ last = NoLast

CallStraightEvent ==
    /\ UNCHANGED <<velocities, t_current_chain>>
    /\ script = "find_event_straight" /\ pc = "call"
    /\ IF exact_straight(pos[1], pos[2], direction, sigma, box)
       THEN \E r \in {find_event_straight(pos[1], pos[2], direction, sigma, box)} :
               /\ pc' = "returned"
               /\ call' = [call EXCEPT !.result = r.time, !.delta_x = r.delta_x]
       ELSE pc' = "inexact" /\ call' = call
    /\ UNCHANGED <<script, err, n_x, n_y, args, sigma, box, pos, vel, active,
                   direction, chain_time, sample, time_to_sample,
                   sample_count, vel_max, printed, last>>

SpecStraightEvent == InitStraightEvent /\ [][CallStraightEvent]_vars

\* the separation of the target from the active disk: across the direction
\* of travel (periodic, unsigned) and along it (periodic, forward)
SEPerp == QAbs(separation_vector(pos[2], pos[1], box)[2 - direction])
SEForward ==
    QMod(QSub(pos[2][direction + 1], pos[1][direction + 1]), box[direction + 1])

\* the image of the target shifted by k sides along and l sides across the
\* direction of travel comes to the distance 2 * sigma from the moving disk,
\* from farther away, at a time in [0, t)
SEEntersBefore(k, l, t) ==
    LET sep == separation_vector(pos[2], pos[1], box)
        para == QAdd(sep[direction + 1], QMul(QInt(k), box[direction + 1]))
        perp == QAdd(sep[2 - direction], QMul(QInt(l), box[2 - direction]))
        h == QSub(FourSigmaSq(sigma), QSq(perp))
    IN  /\ QLt(Zero, h) /\ QLe(Zero, para) /\ QLe(h, QSq(para))
        /\ QLe(para, t) \/ QLt(QSq(QSub(para, t)), h)

\* C24: find_event of the straight script returns infinity when the periodic
\* perpendicular separation is >= 2 * sigma or the forward distance is 0;
\* otherwise it returns the periodic forward distance, which is in (0, side),
\* minus the chord sqrt(4 * sigma^2 - perp^2); for two disks that do not
\* overlap this is >= 0 and the time of the first contact.
StraightEventFirstContact ==
    (script = "find_event_straight" /\ pc = "returned") =>
        LET t == call.result
        IN  IF QLe(QMul(QInt(2), sigma), SEPerp) \/ SEForward = Zero
            THEN IsInf(t)
            ELSE /\ QLt(Zero, SEForward) /\ QLt(SEForward, box[direction + 1])
                 /\ t = QSub(SEForward, Sqrt(QSub(FourSigmaSq(sigma), QSq(SEPerp))))
                 /\ PairApart(pos[1], pos[2], sigma, box) =>
                       /\ QLe(Zero, t)
                       /\ FEMinImageGap(t) = FourSigmaSq(sigma)
                       /\ \A k, l \in -1..1 : ~SEEntersBefore(k, l, t)

\* a finite, positive time was returned for two disks that do not overlap,
\* the target behind the active disk and off its line of travel
StraightEventWitness ==
    /\ script = "find_event_straight" /\ pc = "returned"
    /\ PairApart(pos[1], pos[2], sigma, box)
    /\ ~IsInf(call.result) /\ QLt(Zero, call.result)
    /\ QLt(pos[2][direction + 1], pos[1][direction + 1])
    /\ SEPerp # Zero

\* a step of a chain of ECMC_straight.py: its start or a pass of its loop
StraightChainStep == script = "straight" /\ pc \in {"for", "while"} /\ pc' = "while"

\* C25: in the straight script the direction of a chain is 0 or 1 and stays
\* as it was drawn through the whole chain, handovers included, and no
\* disk's coordinate across that direction changes within a chain.
StraightDirectionKept ==
    /\ [](script = "straight" /\ pc \in {"for", "while"} => direction \in 0..1)
    /\ [][StraightChainStep =>
            /\ direction' = direction
            /\ \A k \in 1..n : pos'[k][2 - direction] = pos[k][2 - direction]]_vars

\* a chain in the direction 1 that has handed over to the disk it hit, after
\* a move
StraightDirectionWitness ==
    /\ StraightPassed /\ last.event = "pair" /\ direction = 1
    /\ active # last.active /\ pos # last.pos

(***************************************************************************)
(* The pair collision of ECMC_forward.py.                                  *)
(***************************************************************************)
\* a pass of the chain loop of ECMC_forward.py has selected a pair event
ForwardCollided == script = "forward" /\ pc = "while" /\ last.event = "pair"

\* sep / (2 * sigma) for the separation of the target from the active disk
\* after the move, as line 133 computes it
contact_normal ==
    LET scaled(sep) == <<QDiv(QDiv(sep[1], QInt(2)), sigma),
                         QDiv(QDiv(sep[2], QInt(2)), sigma)>>
    IN  scaled(separation_vector(pos[last.target], pos[last.active], box))

SignOf(x) == IF QLt(x, Zero) THEN QInt(-1) ELSE QInt(1)

\* C26: after a pair collision of the forward script the velocity of the
\* chain is a unit vector; for the drawn p its component along the contact
\* normal e is sqrt(1 - p^2) * sign(e . v_pre) and its component along
\* (-e_y, e_x) is p * sign(e_y * v_pre_x - e_x * v_pre_y), the sign of 0
\* being +1.
ForwardCollisionTurn ==
    ForwardCollided =>
        \E e \in {contact_normal} : \E p \in uniform_set :
            /\ NormSq(vel) = QInt(1)
            /\ Dot(vel, e) =
                  QMul(Sqrt(QSub(QInt(1), QSq(p))), SignOf(Dot(e, last.vel)))
            /\ Dot(vel, <<QNeg(e[2]), e[1]>>) =
                  QMul(p, SignOf(QSub(QMul(e[2], last.vel[1]),
                                      QMul(e[1], last.vel[2]))))

(***************************************************************************)
(* Ties among the events of molecular_dynamics.py.                         *)
(***************************************************************************)
\* the time of the k-th pair of md_pairs in the last pass
last_pair_time(k) ==
    find_event_md(last.pos[md_pairs[k][1]], last.vel[md_pairs[k][1]],
                  last.pos[md_pairs[k][2]], last.vel[md_pairs[k][2]], sigma, box)

\* the k-th pair is the first of the pairs of least time in the last pass
EarliestPair(k) ==
    /\ k \in 1..Len(md_pairs)
    /\ \A m \in 1..Len(md_pairs) :
          /\ QLe(last_pair_time(k), last_pair_time(m))
          /\ m < k => last_pair_time(m) # last_pair_time(k)

\* the earliest pair of the last pass is as early as the horizon and the
\* sample and ties with one of them
PairTied(k) ==
    /\ EarliestPair(k)
    /\ QLe(last_pair_time(k), last.horizon) /\ QLe(last_pair_time(k), last.before)
    /\ last_pair_time(k) \in {last.horizon, last.before}

\* the horizon of the last pass ties with the sample, before every pair
HorizonTied ==
    /\ last.horizon = last.before
    /\ \A k \in 1..Len(md_pairs) : QLt(last.horizon, last_pair_time(k))

\* C27: in molecular dynamics a pair whose time ties with the horizon or the
\* sample is the event of the pass, the first such pair if there are
\* several, and the sample is not printed by that pass but by a later one
\* that advances by 0; a horizon that ties with the sample is the event of
\* the pass, and the samples printed and the samples to come add up to
\* n_samples.
MDTiesInListOrder ==
    MDPassed =>
        /\ \A k \in 1..Len(md_pairs) :
              PairTied(k) =>
                  /\ last.event = "pair"
                  /\ <<last.active, last.target>> = md_pairs[k]
                  /\ last.event_time = last_pair_time(k)
                  /\ printed = last.printed
                  /\ last.event_time = last.before => time_to_sample = Zero
        /\ HorizonTied =>
              /\ last.event = "cutoff" /\ printed = last.printed
              /\ time_to_sample = Zero
        /\ last.before = Zero => last.event_time = Zero
        /\ last.event = "print" => printed = last.printed + 1
        /\ printed + sample_count = args.n_samples

\* a pair that tied with the sample was the event of the pass and left no
\* time to the sample, which is still to be printed
MDTiesWitness ==
    /\ MDPassed /\ last.event = "pair" /\ time_to_sample = Zero
    /\ printed = last.printed
    /\ \E k \in 1..Len(md_pairs) : PairTied(k) /\ last_pair_time(k) = last.before

\* C28: in molecular dynamics the sum of the velocities of all disks is zero
\* after the initialization and after every event.
MDMomentumZero ==
    (script = "md" /\ vel # <<>>) => vel_total(vel, n) = ZeroVec

\* a collision has changed the velocities of moving disks
MDMomentumWitness ==
    /\ script = "md" /\ last.event = "pair" /\ vel # last.vel
    /\ \A k \in 1..n : vel[k] # ZeroVec

(***************************************************************************)
(* separation_vector with swapped arguments (specification                 *)
(* SpecSeparation).                                                        *)
(***************************************************************************)
\* the result of the call with the two positions swapped
swapped_separation == separation_vector(pos[2], pos[1], box)

\* the component c is exactly half the side
HalfSide(c, side) == QMul(QInt(2), QAbs(c)) = side

\* C29, as claimed: separation_vector(a, b, box) is the negation of
\* separation_vector(b, a, box) for all positions and every box.
SeparationAntisymmetricAll ==
    (script = "separation_vector" /\ pc = "returned") =>
        swapped_separation = <<QNeg(call.result[1]), QNeg(call.result[2])>>

\* C29, amended: a component of separation_vector(a, b, box) is the negation
\* of that of separation_vector(b, a, box) unless the positions are half a
\* side apart in that coordinate; then both calls return + side / 2.
SeparationAntisymmetric ==
    (script = "separation_vector" /\ pc = "returned") =>
        \A d \in 1..2 :
            IF HalfSide(call.result[d], box[d])
            THEN /\ call.result[d] = QDiv(box[d], QInt(2))
                 /\ swapped_separation[d] = call.result[d]
            ELSE swapped_separation[d] = QNeg(call.result[d])

\* a call that folded one component back, with both components away from
\* zero and from half the side
SeparationAntisymmetricWitness ==
    /\ script = "separation_vector" /\ pc = "returned"
    /\ QLt(call.result[1], Zero) /\ QLt(Zero, call.result[2])
    /\ ~HalfSide(call.result[1], box[1]) /\ ~HalfSide(call.result[2], box[2])
    /\ swapped_separation = <<QNeg(call.result[1]), QNeg(call.result[2])>>

(***************************************************************************)
(* Specification SpecFourDisk: four-disk/ECMC_straight_disks.py, straight  *)
(* event-chain Monte Carlo of four disks in the unit box with walls.       *)
(* random.randint and random.choice are choices, random.expovariate a      *)
(* choice from FDChainTimes.  vel is the list object that random.choice    *)
(* returned, an element of velocities: the variable vel holds its index,   *)
(* and line 80 writes through it.  The sums of lines 57-59 are only read   *)
(* by the print statements that are commented out.                         *)
(***************************************************************************)
FDSamples == 1
FDSampleChain == 2
FDChainTimes == {Q(1, 10), Q(1, 4), Q(3, 5)}

\* lines 46, 52, 54, 55
fd_sigma == Q(3, 20)
fd_pos == <<<<Q(1, 4), Q(1, 4)>>, <<Q(3, 4), Q(1, 4)>>,
            <<Q(1, 4), Q(3, 4)>>, <<Q(3, 4), Q(3, 4)>>>>
fd_velocities == <<<<QInt(1), Zero>>, <<Zero, QInt(1)>>,
                   <<QInt(-1), Zero>>, <<Zero, QInt(-1)>>>>
pairs(i) == SelectSeq([j \in 1..4 |-> j], LAMBDA j : j # i)

\* four-disk/common.py, lines 29-54
wall_time(pos_comp, vel_comp, sg) ==
    IF QLt(Zero, vel_comp)
    THEN QDiv(QSub(QSub(QInt(1), sg), pos_comp), vel_comp)
    ELSE IF QLt(vel_comp, Zero)
    THEN QDiv(QSub(pos_comp, sg), QAbs(vel_comp))
    ELSE Inf

\* four-disk/common.py, lines 57-90
pair_time(pos_a, vel_a, pos_b, vel_b, sg) ==
    LET result(del_v_sq, scal, upsilon) ==
            IF QLt(Zero, upsilon) /\ QLt(scal, Zero)
            THEN QDiv(QNeg(QAdd(scal, Sqrt(upsilon))), del_v_sq)
            ELSE Inf
        from(del_x, del_v) ==
            result(NormSq(del_v), Dot(del_v, del_x),
                   QSub(QSq(Dot(del_v, del_x)),
                        QMul(NormSq(del_v), QSub(NormSq(del_x), FourSigmaSq(sg)))))
    IN  from(VecSub(pos_b, pos_a), VecSub(vel_b, vel_a))

\* the square root of line 86 is taken and is rational, or none is taken
exact_pair_time(pos_a, vel_a, pos_b, vel_b, sg) ==
    LET rational(scal, upsilon) ==
            (QLt(Zero, upsilon) /\ QLt(scal, Zero)) => HasSqrt(upsilon)
        from(del_x, del_v) ==
            rational(Dot(del_v, del_x),
                     QSub(QSq(Dot(del_v, del_x)),
                          QMul(NormSq(del_v), QSub(NormSq(del_x), FourSigmaSq(sg)))))
    IN  from(VecSub(pos_b, pos_a), VecSub(vel_b, vel_a))

InitFourDisk ==
    /\ script = "four_disk" /\ pc = "for" /\ err = "none"
    /\ n_x = 2 /\ n_y = 2
    /\ sigma = fd_sigma /\ box = <<QInt(1), QInt(1)>>
    /\ pos = fd_pos /\ velocities = fd_velocities
    /\ vel = 0 /\ active = 0 /\ direction = 0
    /\ chain_time = Zero /\ t_current_chain = Zero /\ sample = 0
    /\ time_to_sample = Zero /\ sample_count = 0 /\ vel_max = Zero
    /\ printed = 0 /\ last = NoLast /\ call = NoCall
    /\ args = [NoArgs EXCEPT !.n_samples = FDSamples, !.n_chains = FDSampleChain]

\* lines 61-66: the head of a chain
FDStartChain ==
    /\ script = "four_disk" /\ pc = "for"
    /\ sample < args.n_samples * args.n_chains
    /\ t_current_chain' = Zero
    /\ active' \in 1..4
    /\ vel' \in 1..Len(velocities)
    /\ chain_time' \in FDChainTimes
    /\ pc' = "while"
    /\ last' = [NoLast EXCEPT !.event = "start"]
    /\ UNCHANGED <<script, err, n_x, n_y, args, sigma, box, pos, velocities,
                   direction, sample, time_to_sample, sample_count, vel_max,
                   printed, call>>

\* lines 68-69
fd_wall_times ==
    [i \in 1..2 |-> [time |-> wall_time(pos[active][i], velocities[vel][i], sigma)]]
fd_pair_times ==
    [k \in 1..3 |->
        [time |-> pair_time(pos[active], velocities[vel], pos[pairs(active)[k]],
                            ZeroVec, sigma)]]
fd_exact ==
    \A k \in 1..3 :
        exact_pair_time(pos[active], velocities[vel], pos[pairs(active)[k]],
                        ZeroVec, sigma)

\* list.index(value): the first index of the value
index(times, value) ==
    CHOOSE k \in 1..Len(times) :
        times[k].time = value /\ \A m \in 1..(k - 1) : times[m].time # value

\* the list velocities after line 80 has written -vel[i] through vel
reflected(i) ==
    [velocities EXCEPT ![vel] = [@ EXCEPT ![i] = QNeg(@)]]

\* one pass of the loop while True, lines 68-84, and after its break the
\* lines 85-93
FDStep ==
    /\ script = "four_disk" /\ pc = "while"
    /\ UNCHANGED <<script, err, n_x, n_y, args, sigma, box, vel, direction,
                   chain_time, time_to_sample, sample_count, vel_max, call>>
    /\ IF ~fd_exact
       THEN /\ pc' = "inexact"
            /\ UNCHANGED <<pos, velocities, active, t_current_chain, sample,
                           printed, last>>
       ELSE
         \E wall_times \in {fd_wall_times} : \E pair_times \in {fd_pair_times} :
         \E next_event \in {first(wall_times \o pair_times).time} :
             IF QLt(chain_time, QAdd(t_current_chain, next_event))
             THEN /\ pos' = [pos EXCEPT ![active] =
                                Advance(pos[active], velocities[vel],
                                        QSub(chain_time, t_current_chain))]
                  /\ pc' = "for"
                  /\ sample' = sample + 1
                  /\ printed' = IF (sample + 1) % args.n_chains = 0
                                THEN printed + 1 ELSE printed
                  /\ last' = [NoLast EXCEPT !.event = "break"]
                  /\ UNCHANGED <<velocities, active, t_current_chain>>
             ELSE /\ t_current_chain' = QAdd(t_current_chain, next_event)
                  /\ pos' = [pos EXCEPT ![active] =
                                Advance(pos[active], velocities[vel], next_event)]
                  /\ IF QLt(first(wall_times).time, first(pair_times).time)
                     THEN /\ velocities' = reflected(index(wall_times, next_event))
                          /\ active' = active
                          /\ last' = [NoLast EXCEPT !.event = "wall"]
                     ELSE /\ active' = pairs(active)[index(pair_times, next_event)]
                          /\ velocities' = velocities
                          /\ last' = [NoLast EXCEPT !.event = "pair"]
                  /\ UNCHANGED <<pc, sample, printed>>

\* the loop of line 61 is over
FDFinish ==
    /\ script = "four_disk" /\ pc = "for"
    /\ sample >= args.n_samples * args.n_chains
    /\ pc' = "done"
    /\ UNCHANGED <<script, err, n_x, n_y, args, sigma, box, pos, vel, active,
                   direction, chain_time, sample, time_to_sample, sample_count,
                   vel_max, printed, last, call, velocities, t_current_chain>>

NextFourDisk == FDStartChain \/ FDStep \/ FDFinish

SpecFourDisk == InitFourDisk /\ [][NextFourDisk]_vars

\* C30: in the four-disk straight script the list velocities, from which the
\* velocity of a chain is drawn, is (1,0), (0,1), (-1,0), (0,-1) at the start
\* of every chain, whatever walls the chains before have hit.
FourDiskVelocitiesKept ==
    (script = "four_disk" /\ pc = "for") => velocities = fd_velocities

=============================================================================
